---- MODULE Spec2Model ----
(***************************************************************************)
(* Model of download_minecraft_items.py: the paginated lister              *)
(* (get_item_list), the per-item resolver and fetcher (process_item and    *)
(* the three calls it makes), the thread-pool orchestrator and the catalog *)
(* writer (main, save_items_json).                                         *)
(*                                                                         *)
(* Python strings are sequences of one-character strings, so that          *)
(* lower(), "in", replace() and slicing are computed and not assumed.      *)
(* Python's None is the value None below, which is no string.              *)
(***************************************************************************)
EXTENDS Integers, Sequences, FiniteSets, TLC

VARIABLES
    pc,                     \* position of the main thread
    download_files,         \* main's argument
    wiki,                   \* the remote category listing: a sequence of pages
    items,                  \* get_item_list: the accumulator, then main's items
    continue_token,         \* get_item_list: continue_token
    requests,               \* the listing requests made: the cmcontinue value
                            \* each carried and how it was answered
    sleeps,                 \* seconds get_item_list has slept
    list_error,             \* the exception get_item_list caught, if any
    tasks,                  \* one record per submitted future, in submission order
    items_info,             \* main: items_info
    successful_downloads,   \* main: successful_downloads
    failed_downloads,       \* main: failed_downloads
    dirs,                   \* directories that exist
    files,                  \* files that exist: path -> content
    catalog,                \* content of minecraft_items.json
    summary                 \* the totals logged at the end of main

vars == <<pc, download_files, wiki, items, continue_token, requests, sleeps,
          list_error, tasks, items_info, successful_downloads,
          failed_downloads, dirs, files, catalog, summary>>

listerVars == <<wiki, items, continue_token, requests, sleeps, list_error>>
poolVars   == <<tasks, items_info, successful_downloads, failed_downloads>>
diskVars   == <<dirs, files, catalog>>

-----------------------------------------------------------------------------
(* Bounds of the model *)

MaxPages    == 2    \* pages of the category listing (lister specification)
MaxPageSize == 2    \* members on one page (lister specification)
MaxItems    == 2    \* members of the listing in a whole run
MaxImages   == 2    \* images listed on one wiki page
PoolExtra   == 1    \* items submitted beyond the number of workers

(* Program constants *)

MAX_WORKERS == 10
DELAY_BETWEEN_REQUESTS == 1
NameMax == 255

-----------------------------------------------------------------------------
(* Values *)

None == <<"None">>

Empty == [k \in {} |-> k]

\* A reply not yet received, a local not yet assigned, a file not yet
\* written, a summary not yet logged.
NoReply    == [status |-> "none"]
Unassigned == [unassigned |-> TRUE]
NoFile     == [written |-> FALSE]
NotLogged  == [logged |-> FALSE]

\* Python truthiness of None and of a string.
Truthy(v) == v # None /\ v # <<>>

SeqsUpTo(S, n) == UNION {[1..k -> S] : k \in 0..n}

RECURSIVE Flatten(_)
Flatten(ss) == IF ss = <<>> THEN <<>> ELSE Head(ss) \o Flatten(Tail(ss))

\* line 21
SAVE_DIR == <<"s", "c", "r", "i", "p", "t", "s", "/", "m", "i", "n", "e", "c", "r", "a", "f", "t", "_", "i", "t", "e", "m", "s">>

\* os.path.dirname(SAVE_DIR)
SCRIPTS_DIR == <<"s", "c", "r", "i", "p", "t", "s">>

\* line 170
JSON_PATH == SCRIPTS_DIR \o <<"/", "m", "i", "n", "e", "c", "r", "a", "f", "t", "_", "i", "t", "e", "m", "s", ".", "j", "s", "o", "n">>

-----------------------------------------------------------------------------
(* Strings *)

UpperChars == <<"A", "B", "C", "D", "E", "F", "G", "H", "I", "J", "K", "L", "M",
                "N", "O", "P", "Q", "R", "S", "T", "U", "V", "W", "X", "Y", "Z">>
LowerChars == <<"a", "b", "c", "d", "e", "f", "g", "h", "i", "j", "k", "l", "m",
                "n", "o", "p", "q", "r", "s", "t", "u", "v", "w", "x", "y", "z">>

LowerChar(c) ==
    IF \E i \in 1..26 : UpperChars[i] = c
    THEN LowerChars[CHOOSE i \in 1..26 : UpperChars[i] = c]
    ELSE c

\* str.lower()
Lower(s) == [i \in 1..Len(s) |-> LowerChar(s[i])]

\* sub in s
Contains(sub, s) ==
    \E i \in 1..(Len(s) - Len(sub) + 1) : SubSeq(s, i, i + Len(sub) - 1) = sub

\* s[:n]
Take(s, n) == SubSeq(s, 1, IF Len(s) < n THEN Len(s) ELSE n)

\* the position of the last c in s, 0 when there is none
LastIndexOf(c, s) ==
    IF \E i \in 1..Len(s) : s[i] = c
    THEN CHOOSE i \in 1..Len(s) : s[i] = c /\ \A j \in (i + 1)..Len(s) : s[j] # c
    ELSE 0

\* os.path.basename
Basename(s) == SubSeq(s, LastIndexOf("/", s) + 1, Len(s))

\* The percent escapes of the characters that occur in the modelled URLs.
Escapes == { <<"2", "F", "/">>, <<"2", "f", "/">>, <<"2", "0", " ">>,
             <<"3", "A", ":">>, <<"3", "a", ":">>, <<"5", "F", "_">> }

\* urllib.parse.unquote: a recognised escape is decoded, anything else is kept
RECURSIVE unquote(_)
unquote(s) ==
    IF s = <<>> THEN <<>>
    ELSE IF /\ s[1] = "%"
            /\ Len(s) >= 3
            /\ \E e \in Escapes : e[1] = s[2] /\ e[2] = s[3]
         THEN <<(CHOOSE e \in Escapes : e[1] = s[2] /\ e[2] = s[3])[3]>>
              \o unquote(SubSeq(s, 4, Len(s)))
         ELSE <<s[1]>> \o unquote(Tail(s))

\* line 35
invalid_chars == {"<", ">", ":", "\"", "/", "\\", "|", "?", "*"}

\* lines 33-38
sanitize_filename(filename) ==
    Take([i \in 1..Len(filename) |->
             IF filename[i] \in invalid_chars THEN "_" ELSE filename[i]],
         NameMax)

\* os.path.join(SAVE_DIR, filename) for a filename without a separator
JoinSaveDir(filename) == SAVE_DIR \o <<"/">> \o filename

\* lines 156-157
FilePath(title, image_url) ==
    JoinSaveDir(sanitize_filename(title \o <<"_">> \o Basename(unquote(image_url))))

-----------------------------------------------------------------------------
(* The remote category listing *)

\* Members of the category as the API returns them; the last one lacks the
\* 'title' field.
ItemPool == { [title |-> <<"a", "/", "b">>, pageid |-> 1],
              [title |-> <<"a", "_", "b">>, pageid |-> 2],
              [pageid |-> 3] }

Token(i) == <<"cmcontinue", i>>

\* The JSON document the API returns for a category-members request that
\* carries the continuation value cm (None: the parameter is absent).
ServerListing(w, cm) ==
    LET i == IF cm = None THEN 1 ELSE cm[2] + 1
    IN  [query |-> [categorymembers |-> w[i]]]
        @@ (IF i < Len(w) THEN [continue |-> [cmcontinue |-> Token(i)]] ELSE Empty)

\* What a listing request can come back with.
ListOutcomes == {"ok", "error_doc", "bad_continue", "transport", "parse"}

ListingData(w, cm, outcome) ==
    CASE outcome = "ok"           -> ServerListing(w, cm)
      [] outcome = "error_doc"    -> [error |-> "badrequest"]
      [] outcome = "bad_continue" -> [query |-> ServerListing(w, cm).query,
                                      continue |-> [malformed |-> TRUE]]
      [] OTHER                    -> Empty

-----------------------------------------------------------------------------
(* get_item_list *)

\* A request that never carries the token.
CarriedNothing(tok) == None

\* line 55-56: the parameter is sent only for a truthy token
CarriedToken(tok) == IF Truthy(tok) THEN tok ELSE None

\* lines 59-60: requests.get or response.json() raises
RequestRaises(outcome) == outcome \in {"transport", "parse"}

\* A handler that restarts the accumulator.
ItemsDroppedOnRaise(acc) == <<>>

\* lines 71-73: the handler logs and breaks; the accumulator is returned as
\* it stands
ItemsAfterRaise(acc) == acc

\* An extend that is skipped on the page that carries no continuation.
ExtendItemsIfMore(acc, data) ==
    IF /\ "query" \in DOMAIN data /\ "categorymembers" \in DOMAIN data.query
       /\ "continue" \in DOMAIN data
    THEN acc \o data.query.categorymembers
    ELSE acc

\* lines 62-63
ExtendItems(acc, data) ==
    IF "query" \in DOMAIN data /\ "categorymembers" \in DOMAIN data.query
    THEN acc \o data.query.categorymembers
    ELSE acc

\* line 65 raises when data['continue'] is no container
ContinueRaises(data) ==
    "continue" \in DOMAIN data /\ "malformed" \in DOMAIN data.continue

\* line 65
HasContinue(data) ==
    "continue" \in DOMAIN data /\ "cmcontinue" \in DOMAIN data.continue

\* A loop that sleeps after every response.
ListRequestSleepsAlways(outcome) ==
    /\ pc = "get_item_list"
    /\ LET cm   == CarriedToken(continue_token)
           data == ListingData(wiki, cm, outcome)
       IN  /\ requests' = Append(requests, [cmcontinue |-> cm, reply |-> outcome])
           /\ sleeps' = sleeps + DELAY_BETWEEN_REQUESTS
           /\ IF RequestRaises(outcome)
              THEN /\ list_error' = outcome
                   /\ items' = ItemsAfterRaise(items)
                   /\ UNCHANGED continue_token
                   /\ pc' = "submit"
              ELSE /\ items' = ExtendItems(items, data)
                   /\ IF ContinueRaises(data)
                      THEN /\ list_error' = "continue"
                           /\ UNCHANGED continue_token
                           /\ pc' = "submit"
                      ELSE /\ UNCHANGED list_error
                           /\ IF HasContinue(data)
                              THEN /\ continue_token' = data.continue.cmcontinue
                                   /\ pc' = "get_item_list"
                              ELSE /\ UNCHANGED continue_token
                                   /\ pc' = "submit"
    /\ UNCHANGED <<download_files, wiki, poolVars, diskVars, summary>>

\* One iteration of the while loop, lines 45-73; the loop's exit is the
\* return of line 75.
ListRequest(outcome) ==
    /\ pc = "get_item_list"
    /\ LET cm   == CarriedToken(continue_token)
           data == ListingData(wiki, cm, outcome)
       IN  /\ requests' = Append(requests, [cmcontinue |-> cm, reply |-> outcome])
           /\ IF RequestRaises(outcome)
              THEN /\ list_error' = outcome
                   /\ items' = ItemsAfterRaise(items)
                   /\ UNCHANGED <<continue_token, sleeps>>
                   /\ pc' = "submit"
              ELSE /\ items' = ExtendItems(items, data)
                   /\ IF ContinueRaises(data)
                      THEN /\ list_error' = "continue"
                           /\ UNCHANGED <<continue_token, sleeps>>
                           /\ pc' = "submit"
                      ELSE /\ UNCHANGED list_error
                           /\ IF HasContinue(data)
                              THEN /\ continue_token' = data.continue.cmcontinue
                                   /\ sleeps' = sleeps + DELAY_BETWEEN_REQUESTS
                                   /\ pc' = "get_item_list"
                              ELSE /\ UNCHANGED <<continue_token, sleeps>>
                                   /\ pc' = "submit"
    /\ UNCHANGED <<download_files, wiki, poolVars, diskVars, summary>>

-----------------------------------------------------------------------------
(* The remote page-images and image-metadata queries, and the image host *)

ImageTitlePool == { <<"a", ".", "P", "N", "G">>,
                    <<"g", "i", "f", "t", ".", "j", "p", "g">>,
                    <<"b", ".", "j", "p", "g">>,
                    <<"c", ".", "g", "i", "f">> }

\* One entry of query.pages of a page-images reply: a page without the
\* 'images' field, a page whose image entry lacks 'title', or a page with
\* up to n images.
ImagePages(n) ==
    { [pageid |-> 1], [images |-> <<[ns |-> 6]>>] }
    \cup { [images |-> [k \in 1..Len(ts) |-> [title |-> ts[k]]]] :
             ts \in SeqsUpTo(ImageTitlePool, n) }

\* What a page-images request can come back with: an exception of
\* requests.get ("transport") or of response.json() ("parse"), or a document.
ImageReplies(n) ==
    { [status |-> "transport"], [status |-> "parse"],
      [status |-> "ok", data |-> [error |-> "badrequest"]],
      [status |-> "ok", data |-> [query |-> [pages |-> <<[pageid |-> 1],
                 [images |-> <<[title |-> <<"c", ".", "g", "i", "f">>]>>]>>]]] }
    \cup { [status |-> "ok", data |-> [query |-> [pages |-> <<p>>]]] :
             p \in ImagePages(n) }

UrlPool == { <<"h", "/", "x", ".", "p", "n", "g">>,
             <<"h", "/", "i", "%", "2", "F", "x", ".", "p", "n", "g">>,
             <<>> }

UrlPages ==
    { [pageid |-> 1], [imageinfo |-> <<>>], [imageinfo |-> <<[size |-> 9]>>] }
    \cup { [imageinfo |-> <<[url |-> u]>>] : u \in UrlPool }

UrlReplies ==
    { [status |-> "transport"], [status |-> "parse"],
      [status |-> "ok", data |-> [error |-> "badrequest"]],
      [status |-> "ok", data |-> [query |-> [pages |-> <<[pageid |-> 1],
                 [imageinfo |-> <<[url |-> <<"h", "/", "x", ".", "p", "n", "g">>]>>]>>]]] }
    \cup { [status |-> "ok", data |-> [query |-> [pages |-> <<p>>]]] :
             p \in UrlPages }

\* What the binary fetch can come back with: a 200 reply whose body is
\* written, a 200 reply whose write fails after the file was opened, a 404
\* reply, or no reply within the timeout.
FetchReplies ==
    { [status |-> "ok", content |-> "PNG"],
      [status |-> "write_error", content |-> "PNG"],
      [status |-> "http_error", content |-> "404 page"],
      [status |-> "timeout"] }

-----------------------------------------------------------------------------
(* get_item_image, get_image_url, download_image *)

\* The value of a call: what it returned, or that it raised.
Returned(v) == [raised |-> FALSE, value |-> v]
Raised      == [raised |-> TRUE]

\* line 95
IsPngOrGif(title) ==
    Contains(<<"p", "n", "g">>, Lower(title)) \/ Contains(<<"g", "i", "f">>, Lower(title))

\* lines 94-96: the inner loop; it returns a title, or falls through (None),
\* or raises on an entry without 'title'
RECURSIVE ScanImages(_)
ScanImages(images) ==
    IF images = <<>> THEN Returned(None)
    ELSE IF "title" \notin DOMAIN Head(images) THEN Raised
    ELSE IF IsPngOrGif(Head(images).title) THEN Returned(Head(images).title)
    ELSE ScanImages(Tail(images))

\* lines 91-96: the outer loop
RECURSIVE ScanPages(_)
ScanPages(pages) ==
    IF pages = <<>> THEN Returned(None)
    ELSE IF "images" \in DOMAIN Head(pages)
         THEN LET r == ScanImages(Head(pages).images)
              IN  IF r.raised \/ r.value # None THEN r ELSE ScanPages(Tail(pages))
         ELSE ScanPages(Tail(pages))

\* lines 86-96: the body of the try
ImageTry(reply) ==
    IF reply.status # "ok" THEN Raised
    ELSE IF "query" \notin DOMAIN reply.data THEN Raised
    ELSE ScanPages(reply.data.query.pages)

\* lines 86-100, for an item that has a title
get_item_image(reply) ==
    IF ImageTry(reply).raised THEN None ELSE ImageTry(reply).value

\* lines 117-120
RECURSIVE ScanInfo(_)
ScanInfo(pages) ==
    IF pages = <<>> THEN Returned(None)
    ELSE IF "imageinfo" \in DOMAIN Head(pages)
         THEN IF Head(pages).imageinfo = <<>> THEN Raised
              ELSE IF "url" \notin DOMAIN Head(pages).imageinfo[1] THEN Raised
              ELSE Returned(Head(pages).imageinfo[1].url)
         ELSE ScanInfo(Tail(pages))

\* lines 112-120: the body of the try
UrlTry(reply) ==
    IF reply.status # "ok" THEN Raised
    ELSE IF "query" \notin DOMAIN reply.data THEN Raised
    ELSE ScanInfo(reply.data.query.pages)

\* lines 112-124
get_image_url(reply) ==
    IF UrlTry(reply).raised THEN None ELSE UrlTry(reply).value

\* A fetch without the raise_for_status of line 130.
FetchRaisesOnTimeoutOnly(reply) == reply.status = "timeout"

\* lines 129-130: requests.get or raise_for_status raises
FetchRaises(reply) == reply.status \in {"http_error", "timeout"}

\* line 132: open(filename, 'wb') raises when the directory is missing
OpenRaises(path, ds) == SAVE_DIR \notin ds

\* line 133: f.write raises
WriteRaises(reply) == reply.status = "write_error"

\* lines 128-139: the value download_image returns
download_image(reply, path, ds) ==
    ~FetchRaises(reply) /\ ~OpenRaises(path, ds) /\ ~WriteRaises(reply)

\* lines 132-133: the files after the call; open(.., 'wb') truncates
WriteFile(fs, path, content) ==
    [p \in DOMAIN fs \cup {path} |-> IF p = path THEN content ELSE fs[p]]

FilesAfterDownload(fs, reply, path, ds) ==
    IF FetchRaises(reply) \/ OpenRaises(path, ds) THEN fs
    ELSE WriteFile(fs, path, IF WriteRaises(reply) THEN "" ELSE reply.content)

-----------------------------------------------------------------------------
(* process_item, one future per item *)

\* lines 199-200: a submitted future
NewTask(item) ==
    [ item        |-> item,
      pc          |-> "pending",
      image_title |-> None,
      item_info   |-> Unassigned,
      image_reply |-> NoReply,
      url_reply   |-> NoReply,
      fetch_reply |-> NoReply,
      success     |-> FALSE,
      raised      |-> FALSE,
      collected   |-> FALSE ]

\* A pool that never sees a busy worker.
NoneRunning(ts) == {}

Running(ts) == {i \in DOMAIN ts : ts[i].pc \notin {"pending", "done"}}

\* lines 144-148
NewItemInfo(item) == [name |-> item.title, imageUrl |-> None, localPath |-> None]

\* A worker thread takes the oldest queued future.
StartTask(i) ==
    /\ pc \in {"as_completed", "shutdown"}
    /\ i \in DOMAIN tasks
    /\ tasks[i].pc = "pending"
    /\ \A j \in 1..(i - 1) : tasks[j].pc # "pending"
    /\ Cardinality(Running(tasks)) < MAX_WORKERS
    /\ tasks' = [tasks EXCEPT ![i].pc = "get_item_image"]
    /\ UNCHANGED <<pc, download_files, listerVars, items_info,
                   successful_downloads, failed_downloads, diskVars, summary>>

\* A task that asks again when the page-images request raised.
GetItemImageRetrying(i, reply) ==
    /\ i \in DOMAIN tasks
    /\ tasks[i].pc = "get_item_image"
    /\ IF "title" \notin DOMAIN tasks[i].item
       THEN tasks' = [tasks EXCEPT ![i].pc = "done", ![i].raised = TRUE]
       ELSE LET image_title == get_item_image(reply)
            IN  tasks' = [tasks EXCEPT
                    ![i].image_reply = reply,
                    ![i].image_title = image_title,
                    ![i].item_info = NewItemInfo(tasks[i].item),
                    ![i].pc = IF Truthy(image_title) THEN "get_image_url"
                              ELSE IF reply.status # "ok" THEN "get_item_image"
                              ELSE "done",
                    ![i].success = FALSE]
    /\ UNCHANGED <<pc, download_files, listerVars, items_info,
                   successful_downloads, failed_downloads, diskVars, summary>>

\* lines 143-150 and 166. item['title'] of line 83 is evaluated before the
\* try of get_item_image: an item without a title makes the future raise.
GetItemImage(i, reply) ==
    /\ i \in DOMAIN tasks
    /\ tasks[i].pc = "get_item_image"
    /\ IF "title" \notin DOMAIN tasks[i].item
       THEN tasks' = [tasks EXCEPT ![i].pc = "done", ![i].raised = TRUE]
       ELSE LET image_title == get_item_image(reply)
            IN  tasks' = [tasks EXCEPT
                    ![i].image_reply = reply,
                    ![i].image_title = image_title,
                    ![i].item_info = NewItemInfo(tasks[i].item),
                    ![i].pc = IF Truthy(image_title) THEN "get_image_url" ELSE "done",
                    ![i].success = FALSE]
    /\ UNCHANGED <<pc, download_files, listerVars, items_info,
                   successful_downloads, failed_downloads, diskVars, summary>>

\* A task that goes on to the download whatever the download flag says.
GetImageUrlAlwaysDownloads(i, reply) ==
    /\ i \in DOMAIN tasks
    /\ tasks[i].pc = "get_image_url"
    /\ LET image_url == get_image_url(reply)
           info      == tasks[i].item_info
       IN  tasks' = [tasks EXCEPT
               ![i].url_reply = reply,
               ![i].item_info =
                   IF ~Truthy(image_url) THEN info
                   ELSE IF download_files
                        THEN [info EXCEPT !.imageUrl = image_url,
                                          !.localPath = FilePath(info.name, image_url)]
                        ELSE [info EXCEPT !.imageUrl = image_url],
               ![i].pc = IF Truthy(image_url) THEN "download_image" ELSE "done",
               ![i].success = Truthy(image_url) /\ ~download_files]
    /\ UNCHANGED <<pc, download_files, listerVars, items_info,
                   successful_downloads, failed_downloads, diskVars, summary>>

\* lines 151-158 and 162-166
GetImageUrl(i, reply) ==
    /\ i \in DOMAIN tasks
    /\ tasks[i].pc = "get_image_url"
    /\ LET image_url == get_image_url(reply)
           info      == tasks[i].item_info
       IN  tasks' = [tasks EXCEPT
               ![i].url_reply = reply,
               ![i].item_info =
                   IF ~Truthy(image_url) THEN info
                   ELSE IF download_files
                        THEN [info EXCEPT !.imageUrl = image_url,
                                          !.localPath = FilePath(info.name, image_url)]
                        ELSE [info EXCEPT !.imageUrl = image_url],
               ![i].pc = IF Truthy(image_url) /\ download_files
                         THEN "download_image" ELSE "done",
               ![i].success = Truthy(image_url) /\ ~download_files]
    /\ UNCHANGED <<pc, download_files, listerVars, items_info,
                   successful_downloads, failed_downloads, diskVars, summary>>

\* lines 160-161 and 166
DownloadImage(i, reply) ==
    /\ i \in DOMAIN tasks
    /\ tasks[i].pc = "download_image"
    /\ LET path == tasks[i].item_info.localPath
       IN  /\ files' = FilesAfterDownload(files, reply, path, dirs)
           /\ tasks' = [tasks EXCEPT
                  ![i].fetch_reply = reply,
                  ![i].pc = "done",
                  ![i].success = download_image(reply, path, dirs)]
    /\ UNCHANGED <<pc, download_files, listerVars, items_info,
                   successful_downloads, failed_downloads, dirs, catalog, summary>>

-----------------------------------------------------------------------------
(* main and save_items_json *)

\* lines 184-185: ensure_dir(SAVE_DIR), os.makedirs creates the parents too
EnsureDir ==
    /\ pc = "main"
    /\ dirs' = IF download_files THEN dirs \cup {SCRIPTS_DIR, SAVE_DIR} ELSE dirs
    /\ pc' = "get_item_list"
    /\ UNCHANGED <<download_files, listerVars, poolVars, files, catalog, summary>>

\* lines 196-201: every item is submitted before the first result is taken
Submit ==
    /\ pc = "submit"
    /\ tasks' = [i \in 1..Len(items) |-> NewTask(items[i])]
    /\ pc' = "as_completed"
    /\ UNCHANGED <<download_files, listerVars, items_info, successful_downloads,
                   failed_downloads, diskVars, summary>>

\* A collector that counts every returned result as a success.
CollectAllSuccessful(i) ==
    /\ pc = "as_completed"
    /\ i \in DOMAIN tasks
    /\ tasks[i].pc = "done"
    /\ ~tasks[i].collected
    /\ tasks' = [tasks EXCEPT ![i].collected = TRUE]
    /\ IF tasks[i].raised
       THEN /\ pc' = "shutdown"
            /\ UNCHANGED <<items_info, successful_downloads, failed_downloads>>
       ELSE /\ pc' = "as_completed"
            /\ items_info' = Append(items_info, tasks[i].item_info)
            /\ successful_downloads' = successful_downloads + 1
            /\ UNCHANGED failed_downloads
    /\ UNCHANGED <<download_files, listerVars, diskVars, summary>>

\* lines 203-215: as_completed yields a finished future; future.result()
\* re-raises what the task raised, which leaves the loop and the with block.
Collect(i) ==
    /\ pc = "as_completed"
    /\ i \in DOMAIN tasks
    /\ tasks[i].pc = "done"
    /\ ~tasks[i].collected
    /\ tasks' = [tasks EXCEPT ![i].collected = TRUE]
    /\ IF tasks[i].raised
       THEN /\ pc' = "shutdown"
            /\ UNCHANGED <<items_info, successful_downloads, failed_downloads>>
       ELSE /\ pc' = "as_completed"
            /\ items_info' = Append(items_info, tasks[i].item_info)
            /\ IF tasks[i].success
               THEN /\ successful_downloads' = successful_downloads + 1
                    /\ UNCHANGED failed_downloads
               ELSE /\ failed_downloads' = failed_downloads + 1
                    /\ UNCHANGED successful_downloads
    /\ UNCHANGED <<download_files, listerVars, diskVars, summary>>

\* A loop that is left as soon as one future has been yielded.
LoopEndAfterFirst ==
    /\ pc = "as_completed"
    /\ tasks = <<>> \/ \E i \in DOMAIN tasks : tasks[i].collected
    /\ pc' = "save_items_json"
    /\ UNCHANGED <<download_files, listerVars, poolVars, diskVars, summary>>

\* line 203: the loop ends when every future has been yielded
LoopEnd ==
    /\ pc = "as_completed"
    /\ \A i \in DOMAIN tasks : tasks[i].collected
    /\ pc' = "save_items_json"
    /\ UNCHANGED <<download_files, listerVars, poolVars, diskVars, summary>>

\* line 196: leaving the with block on an exception waits for every future
\* (shutdown(wait=True)); the exception then ends main.
Shutdown ==
    /\ pc = "shutdown"
    /\ \A i \in DOMAIN tasks : tasks[i].pc = "done"
    /\ pc' = "crashed"
    /\ UNCHANGED <<download_files, listerVars, poolVars, diskVars, summary>>

\* A filter on the downloaded file instead of the URL.
downloaded_items(infos) == SelectSeq(infos, LAMBDA r : r.localPath # None)

\* line 173
RECURSIVE successful_items(_)
successful_items(infos) ==
    IF infos = <<>> THEN <<>>
    ELSE IF Head(infos).imageUrl # None
         THEN <<Head(infos)>> \o successful_items(Tail(infos))
         ELSE successful_items(Tail(infos))

\* lines 168-180: open(json_path, 'w') raises when the directory is missing
SaveItemsJson ==
    /\ pc = "save_items_json"
    /\ catalog' = IF SCRIPTS_DIR \in dirs
                  THEN [written |-> TRUE, entries |-> successful_items(items_info)]
                  ELSE catalog
    /\ pc' = "summary"
    /\ UNCHANGED <<download_files, listerVars, poolVars, dirs, files, summary>>

\* lines 220-226
Summary ==
    /\ pc = "summary"
    /\ summary' = [logged     |-> TRUE,
                   total      |-> Len(items),
                   successful |-> successful_downloads,
                   failed     |-> failed_downloads]
    /\ pc' = "done"
    /\ UNCHANGED <<download_files, listerVars, poolVars, diskVars>>

-----------------------------------------------------------------------------
(* Specifications *)

Pages(n) == SeqsUpTo(ItemPool, n)

\* The lister alone: every listing of up to MaxPages pages, every outcome of
\* every request.
ListerWikis == UNION {[1..k -> Pages(MaxPageSize)] : k \in 1..MaxPages}

InitLister ==
    /\ pc = "get_item_list"
    /\ download_files = FALSE
    /\ wiki \in ListerWikis
    /\ items = <<>>
    /\ continue_token = None
    /\ requests = <<>>
    /\ sleeps = 0
    /\ list_error = "none"
    /\ tasks = <<>>
    /\ items_info = <<>>
    /\ successful_downloads = 0
    /\ failed_downloads = 0
    /\ dirs = {}
    /\ files = Empty
    /\ catalog = NoFile
    /\ summary = NotLogged

NextLister == \E outcome \in ListOutcomes : ListRequest(outcome)

SpecLister == InitLister /\ [][NextLister]_vars

\* One item: main has listed and submitted a single titled item; every reply
\* of the three remote calls. The destination file may exist from an earlier
\* run.
ItemPaths == {FilePath(it.title, u) : it \in {m \in ItemPool : "title" \in DOMAIN m},
                                      u \in UrlPool \ {<<>>}}

InitItem ==
    /\ pc = "as_completed"
    /\ download_files \in BOOLEAN
    /\ \E it \in {m \in ItemPool : "title" \in DOMAIN m} :
          /\ wiki = <<<<it>>>>
          /\ items = <<it>>
          /\ tasks = <<NewTask(it)>>
    /\ continue_token = None
    /\ requests = <<[cmcontinue |-> None, reply |-> "ok"]>>
    /\ sleeps = 0
    /\ list_error = "none"
    /\ items_info = <<>>
    /\ successful_downloads = 0
    /\ failed_downloads = 0
    /\ dirs = IF download_files THEN {SCRIPTS_DIR, SAVE_DIR} ELSE {SCRIPTS_DIR}
    /\ files \in {Empty} \cup {[p \in {q} |-> "old"] : q \in ItemPaths}
    /\ catalog = NoFile
    /\ summary = NotLogged

NextItem ==
    \/ \E i \in 1..Len(tasks) : StartTask(i)
    \/ \E i \in 1..Len(tasks), reply \in ImageReplies(MaxImages) : GetItemImage(i, reply)
    \/ \E i \in 1..Len(tasks), reply \in UrlReplies : GetImageUrl(i, reply)
    \/ \E i \in 1..Len(tasks), reply \in FetchReplies : DownloadImage(i, reply)
    \/ \E i \in 1..Len(tasks) : Collect(i)
    \/ LoopEnd
    \/ SaveItemsJson
    \/ Summary

SpecItem == InitItem /\ [][NextItem]_vars

\* A whole run of main: listings of up to MaxItems members on one or two
\* pages, and one reply of each kind for the remote calls of the items.
RunWikis ==
    {w \in UNION {[1..k -> Pages(MaxItems)] : k \in 1..2} : Len(Flatten(w)) <= MaxItems}

RunListOutcomes == {"ok", "transport"}

RunImageReplies ==
    { [status |-> "transport"],
      [status |-> "ok", data |-> [query |-> [pages |-> <<[pageid |-> 1]>>]]],
      [status |-> "ok", data |-> [query |-> [pages |->
          <<[images |-> <<[title |-> <<"a", ".", "P", "N", "G">>]>>]>>]]] }

RunUrlReplies ==
    { [status |-> "transport"],
      [status |-> "ok", data |-> [query |-> [pages |->
          <<[imageinfo |-> <<[url |-> <<"h", "/", "x", ".", "p", "n", "g">>]>>]>>]]] }

RunFetchReplies ==
    { [status |-> "ok", content |-> "PNG"],
      [status |-> "http_error", content |-> "404 page"] }

Init ==
    /\ pc = "main"
    /\ download_files \in BOOLEAN
    /\ wiki \in RunWikis
    /\ items = <<>>
    /\ continue_token = None
    /\ requests = <<>>
    /\ sleeps = 0
    /\ list_error = "none"
    /\ tasks = <<>>
    /\ items_info = <<>>
    /\ successful_downloads = 0
    /\ failed_downloads = 0
    /\ dirs \in {{}, {SCRIPTS_DIR}}
    /\ files = Empty
    /\ catalog = NoFile
    /\ summary = NotLogged

Next ==
    \/ EnsureDir
    \/ \E outcome \in RunListOutcomes : ListRequest(outcome)
    \/ Submit
    \/ \E i \in 1..Len(tasks) : StartTask(i)
    \/ \E i \in 1..Len(tasks), reply \in RunImageReplies : GetItemImage(i, reply)
    \/ \E i \in 1..Len(tasks), reply \in RunUrlReplies : GetImageUrl(i, reply)
    \/ \E i \in 1..Len(tasks), reply \in RunFetchReplies : DownloadImage(i, reply)
    \/ \E i \in 1..Len(tasks) : Collect(i)
    \/ LoopEnd
    \/ Shutdown
    \/ SaveItemsJson
    \/ Summary

Spec == Init /\ [][Next]_vars

\* The pool under load: main has submitted more items than there are
\* workers; the page of every item has no images, so that a task is one
\* remote call. The collecting thread is left out, it does not act on the
\* workers.
PoolItems ==
    [i \in 1..(MAX_WORKERS + PoolExtra) |-> [title |-> <<"a", "/", "b">>, pageid |-> 1]]

PoolImageReply == [status |-> "ok", data |-> [query |-> [pages |-> <<[pageid |-> 1]>>]]]

InitPool ==
    /\ pc = "as_completed"
    /\ download_files = FALSE
    /\ wiki = <<PoolItems>>
    /\ items = PoolItems
    /\ tasks = [i \in 1..Len(PoolItems) |-> NewTask(PoolItems[i])]
    /\ continue_token = None
    /\ requests = <<[cmcontinue |-> None, reply |-> "ok"]>>
    /\ sleeps = 0
    /\ list_error = "none"
    /\ items_info = <<>>
    /\ successful_downloads = 0
    /\ failed_downloads = 0
    /\ dirs = {SCRIPTS_DIR}
    /\ files = Empty
    /\ catalog = NoFile
    /\ summary = NotLogged

NextPool ==
    \/ \E i \in 1..Len(tasks) : StartTask(i)
    \/ \E i \in 1..Len(tasks) : GetItemImage(i, PoolImageReply)

SpecPool == InitPool /\ [][NextPool]_vars

\* A run against a remote whose replies are fixed per request. Item A has a
\* .png image that downloads; item B has an image whose metadata lookup
\* fails; the page of item C has no images; item D has an image whose
\* download is answered 404; the fifth member has no title. Three distinct
\* members are listed, in any order.
ItemA == [title |-> <<"A">>, pageid |-> 11]
ItemB == [title |-> <<"B">>, pageid |-> 12]
ItemC == [title |-> <<"C">>, pageid |-> 13]
ItemD == [title |-> <<"D">>, pageid |-> 14]
ItemU == [pageid |-> 3]

FixedPool == {ItemA, ItemB, ItemC, ItemD, ItemU}

FixedLists == {l \in [1..3 -> FixedPool] : \A j, k \in 1..3 : j # k => l[j] # l[k]}

ImageOfA == <<"a", ".", "P", "N", "G">>
ImageOfB == <<"c", ".", "g", "i", "f">>
ImageOfD == <<"d", ".", "p", "n", "g">>
UrlOfA   == <<"h", "/", "x", ".", "p", "n", "g">>
UrlOfD   == <<"h", "/", "d", ".", "p", "n", "g">>

OnePage(page) == [status |-> "ok", data |-> [query |-> [pages |-> <<page>>]]]

\* the reply to the page-images query for an item
FixedImageReply(item) ==
    IF "title" \notin DOMAIN item THEN NoReply
    ELSE CASE item = ItemA -> OnePage([images |-> <<[title |-> ImageOfA]>>])
           [] item = ItemB -> OnePage([images |-> <<[title |-> ImageOfB]>>])
           [] item = ItemD -> OnePage([images |-> <<[title |-> ImageOfD]>>])
           [] OTHER        -> OnePage([pageid |-> item.pageid])

\* the reply to the image-metadata query for an image title
FixedUrlReply(image_title) ==
    CASE image_title = ImageOfA -> OnePage([imageinfo |-> <<[url |-> UrlOfA]>>])
      [] image_title = ImageOfD -> OnePage([imageinfo |-> <<[url |-> UrlOfD]>>])
      [] OTHER                  -> [status |-> "transport"]

\* the reply of the image host for a URL
FixedFetchReply(image_url) ==
    IF image_url = UrlOfA THEN [status |-> "ok", content |-> "PNG"]
    ELSE [status |-> "http_error", content |-> "404 page"]

InitFixed ==
    /\ pc = "main"
    /\ download_files \in BOOLEAN
    /\ \E l \in FixedLists : wiki = <<l>>
    /\ items = <<>>
    /\ continue_token = None
    /\ requests = <<>>
    /\ sleeps = 0
    /\ list_error = "none"
    /\ tasks = <<>>
    /\ items_info = <<>>
    /\ successful_downloads = 0
    /\ failed_downloads = 0
    /\ dirs \in {{}, {SCRIPTS_DIR}}
    /\ files = Empty
    /\ catalog = NoFile
    /\ summary = NotLogged

NextFixed ==
    \/ EnsureDir
    \/ ListRequest("ok")
    \/ Submit
    \/ \E i \in 1..Len(tasks) : StartTask(i)
    \/ \E i \in 1..Len(tasks) : GetItemImage(i, FixedImageReply(tasks[i].item))
    \/ \E i \in 1..Len(tasks) : GetImageUrl(i, FixedUrlReply(tasks[i].image_title))
    \/ \E i \in 1..Len(tasks) :
          /\ tasks[i].pc = "download_image"
          /\ DownloadImage(i, FixedFetchReply(tasks[i].item_info.imageUrl))
    \/ \E i \in 1..Len(tasks) : Collect(i)
    \/ LoopEnd
    \/ Shutdown
    \/ SaveItemsJson
    \/ Summary

SpecFixed == InitFixed /\ [][NextFixed]_vars

-----------------------------------------------------------------------------
(* Properties *)

Range(f) == {f[k] : k \in DOMAIN f}

Done(t) == t.pc = "done"

\* The loop of lines 203-215 has been left, normally or by an exception.
LoopLeft == pc \in {"shutdown", "crashed", "save_items_json", "summary", "done"}

\* main has ended, by returning or by an exception.
RunEnded == pc \in {"done", "crashed"}

\* C1: when the collection loop of main has ended, items_info holds as many
\* results as there are listed items.
C1_ResultPerItem == LoopLeft => Len(items_info) = Len(items)

\* C2: every catalog entry has an imageUrl, and a result carries a localPath
\* only if download was enabled and the download of that item succeeded.
C2_LocalPathOnlyWhenDownloaded ==
    /\ catalog.written => \A k \in DOMAIN catalog.entries : catalog.entries[k].imageUrl # None
    /\ \A i \in DOMAIN tasks :
          (Done(tasks[i]) /\ ~tasks[i].raised /\ tasks[i].item_info.localPath # None)
          => /\ download_files
             /\ tasks[i].fetch_reply # NoReply
             /\ tasks[i].fetch_reply.status = "ok"

\* C3: the written catalog holds only items the run counted as successes; an
\* item whose download failed is not in it.
C3_CatalogOnlySuccesses ==
    catalog.written =>
        /\ Len(catalog.entries) = successful_downloads
        /\ \A k \in DOMAIN catalog.entries :
              \E i \in DOMAIN tasks : /\ tasks[i].collected
                                      /\ tasks[i].success
                                      /\ tasks[i].item_info = catalog.entries[k]

\* C4: when a task has raised, main still collects one result per item,
\* counts the raising item as a failure, and writes the summary (and the
\* catalog, when its directory exists).
C4_FaultTolerated ==
    (RunEnded /\ \E i \in DOMAIN tasks : tasks[i].raised)
    => /\ pc = "done"
       /\ Len(items_info) = Len(items)
       /\ failed_downloads >= Cardinality({i \in DOMAIN tasks : tasks[i].raised})
       /\ summary.logged
       /\ SCRIPTS_DIR \in dirs => catalog.written

AllRequestsOk == \A k \in DOMAIN requests : requests[k].reply = "ok"

\* C6: when every request succeeded, get_item_list returns the members of
\* all pages of the listing, in page order, the last page included.
C6_AllPagesListed ==
    (pc = "submit" /\ AllRequestsOk)
    => /\ items = Flatten(wiki)
       /\ Len(requests) = Len(wiki)

\* C6 witness: a listing of two non-empty pages was listed without a failure.
C6_Witness ==
    /\ pc = "submit"
    /\ AllRequestsOk
    /\ Len(wiki) = 2
    /\ wiki[1] # <<>>
    /\ wiki[2] # <<>>

\* C7: when request k raised a transport or parse error, get_item_list has
\* returned, request k is the last one, and the items are the members of
\* pages 1..k-1.
C7_FailureKeepsFetchedPages ==
    \A k \in DOMAIN requests :
        requests[k].reply \in {"transport", "parse"}
        => /\ pc = "submit"
           /\ k = Len(requests)
           /\ items = Flatten(SubSeq(wiki, 1, k - 1))

\* C7 witness: the second request failed after a non-empty first page.
C7_Witness ==
    /\ Len(requests) = 2
    /\ requests[2].reply \in {"transport", "parse"}
    /\ wiki[1] # <<>>
    /\ items = wiki[1]

\* The filename extension of a title: the text after its last dot.
Extension(title) ==
    IF LastIndexOf(".", title) = 0 THEN <<>>
    ELSE SubSeq(title, LastIndexOf(".", title) + 1, Len(title))

AcceptedType(title) ==
    Lower(Extension(title)) \in {<<"p", "n", "g">>, <<"g", "i", "f">>}

\* The titles of the images of a page-images document, in response order.
RECURSIVE ImageTitles(_)
ImageTitles(pages) ==
    IF pages = <<>> THEN <<>>
    ELSE (IF "images" \in DOMAIN Head(pages)
          THEN [k \in 1..Len(Head(pages).images) |->
                   IF "title" \in DOMAIN Head(pages).images[k]
                   THEN Head(pages).images[k].title ELSE None]
          ELSE <<>>)
         \o ImageTitles(Tail(pages))

WellFormedImages(reply) ==
    /\ reply.status = "ok"
    /\ "query" \in DOMAIN reply.data
    /\ \A k \in DOMAIN ImageTitles(reply.data.query.pages) :
          ImageTitles(reply.data.query.pages)[k] # None

\* A page-images reply for which the resolver is to answer null: an error, a
\* malformed document, or no image of an accepted type.
ImageNullCase(reply) ==
    \/ ~WellFormedImages(reply)
    \/ \A k \in DOMAIN ImageTitles(reply.data.query.pages) :
          ~AcceptedType(ImageTitles(reply.data.query.pages)[k])

\* An image-metadata reply for which the resolver is to answer null: an
\* error, a malformed document, or no URL.
UrlNullCase(reply) ==
    \/ reply.status # "ok"
    \/ "query" \notin DOMAIN reply.data
    \/ \A k \in DOMAIN reply.data.query.pages :
          \/ "imageinfo" \notin DOMAIN reply.data.query.pages[k]
          \/ reply.data.query.pages[k].imageinfo = <<>>
          \/ "url" \notin DOMAIN reply.data.query.pages[k].imageinfo[1]

FailedWithNulls(t) ==
    /\ Done(t)
    /\ ~t.raised
    /\ ~t.success
    /\ t.item_info.imageUrl = None
    /\ t.item_info.localPath = None

\* C8: a failed or empty resolver lookup gives null at that step, never an
\* exception, and process_item returns a failure with imageUrl and localPath
\* both null.
C8_NullLookupIsFailure ==
    \A i \in DOMAIN tasks :
        /\ (tasks[i].image_reply # NoReply /\ ImageNullCase(tasks[i].image_reply))
           => (tasks[i].image_title = None /\ FailedWithNulls(tasks[i]))
        /\ (tasks[i].url_reply # NoReply /\ UrlNullCase(tasks[i].url_reply))
           => FailedWithNulls(tasks[i])

\* C9: get_item_image returns the first image, in response order, whose
\* extension is .png or .gif whatever its case, and null when there is none.
C9_FirstImageByExtension ==
    \A i \in DOMAIN tasks :
        (tasks[i].image_reply # NoReply /\ WellFormedImages(tasks[i].image_reply))
        => LET ts == ImageTitles(tasks[i].image_reply.data.query.pages)
               ok == {k \in DOMAIN ts : AcceptedType(ts[k])}
           IN  tasks[i].image_title =
                   IF ok = {} THEN None
                   ELSE ts[CHOOSE k \in ok : \A j \in ok : k <= j]

\* C10: a fetch answered by an error status or by a timeout makes
\* download_image return false without raising and leaves every file as it
\* was; download_image returns true only with the whole body at the path.
C10_FailedFetchWritesNothing ==
    [][\A i \in DOMAIN tasks :
          (tasks[i].pc = "download_image" /\ tasks'[i].pc = "done")
          => /\ ~tasks'[i].raised
             /\ tasks'[i].fetch_reply.status \in {"http_error", "timeout"}
                => (~tasks'[i].success /\ files' = files)
             /\ tasks'[i].success
                => /\ tasks'[i].fetch_reply.status = "ok"
                   /\ tasks'[i].item_info.localPath \in DOMAIN files'
                   /\ files'[tasks'[i].item_info.localPath]
                        = tasks'[i].fetch_reply.content]_vars

\* C10 witness: a download was answered 404 while the destination file
\* existed, and the file still has its old content.
C10_Witness ==
    \E i \in DOMAIN tasks :
        /\ Done(tasks[i])
        /\ tasks[i].fetch_reply # NoReply
        /\ tasks[i].fetch_reply.status = "http_error"
        /\ ~tasks[i].success
        /\ tasks[i].item_info.localPath \in DOMAIN files
        /\ files[tasks[i].item_info.localPath] = "old"

\* The tasks a worker has started and not finished.
InProgress(ts) ==
    {i \in DOMAIN ts : ts[i].pc \in {"get_item_image", "get_image_url", "download_image"}}

\* C11: at most MAX_WORKERS tasks are in progress, and a pending task is
\* started only when fewer than MAX_WORKERS are in progress.
C11_AtMostMaxWorkers ==
    [][/\ Cardinality(InProgress(tasks')) <= MAX_WORKERS
       /\ \A i \in DOMAIN tasks :
             (tasks[i].pc = "pending" /\ tasks'[i].pc # "pending")
             => Cardinality(InProgress(tasks)) < MAX_WORKERS]_vars

\* C11 witness: every worker is busy and an item is still queued.
C11_Witness ==
    /\ Cardinality(InProgress(tasks)) = MAX_WORKERS
    /\ \E i \in DOMAIN tasks : tasks[i].pc = "pending"

\* The listed items are A, B and C, in some order.
ScenarioABC == Range(items) = {ItemA, ItemB, ItemC}

PathOfA == SAVE_DIR \o <<"/", "A", "_", "x", ".", "p", "n", "g">>
PathOfD == SAVE_DIR \o <<"/", "D", "_", "d", ".", "p", "n", "g">>

UrlResolved(t) == t.item_info # Unassigned /\ t.item_info.imageUrl # None

DownloadSucceeded(t) ==
    /\ t.fetch_reply # NoReply
    /\ t.fetch_reply.status = "ok"
    /\ t.item_info.localPath \in DOMAIN files

\* C12: when the summary is logged, its success and failure counts add up to
\* the number of listed items, the success count is the number of items whose
\* URL was resolved and, with download enabled, whose download succeeded; for
\* the items A, B and C it reports 1 success and 2 failures and the written
\* catalog holds exactly the entry of A.
C12_CountsAddUp ==
    summary.logged =>
        /\ summary.total = Len(items)
        /\ summary.successful + summary.failed = Len(items)
        /\ summary.successful =
              Cardinality({i \in DOMAIN tasks :
                              /\ UrlResolved(tasks[i])
                              /\ download_files => DownloadSucceeded(tasks[i])})
        /\ ScenarioABC =>
              /\ summary.successful = 1
              /\ summary.failed = 2
              /\ catalog.written =>
                    catalog.entries =
                        <<[name      |-> <<"A">>,
                           imageUrl  |-> UrlOfA,
                           localPath |-> IF download_files THEN PathOfA ELSE None]>>

\* C12 witness: a download run over C, B, A has logged its summary and
\* written its catalog.
C12_Witness ==
    /\ summary.logged
    /\ catalog.written
    /\ download_files
    /\ items = <<ItemC, ItemB, ItemA>>
    /\ PathOfA \in DOMAIN files

\* Both lookups of a task have returned a non-null value.
LookupsReturned(t) ==
    /\ t.image_reply # NoReply
    /\ t.url_reply # NoReply
    /\ Truthy(t.image_title)
    /\ t.item_info # Unassigned
    /\ Truthy(t.item_info.imageUrl)

\* C13: a fetch is issued and an image file is written for an item only when
\* download is enabled and after the item's image-title lookup and then its
\* URL lookup have returned non-null values; with download disabled no step
\* issues a fetch or creates a file or a directory, every result has a null
\* localPath, and a finished item with a resolved URL is a success.
C13_FetchOnlyWhenEnabled ==
    [][/\ \A i \in DOMAIN tasks :
             /\ tasks'[i].fetch_reply # tasks[i].fetch_reply
                => /\ download_files
                   /\ tasks[i].fetch_reply = NoReply
                   /\ LookupsReturned(tasks[i])
             /\ tasks'[i].url_reply # tasks[i].url_reply
                => /\ tasks[i].image_reply # NoReply
                   /\ Truthy(tasks[i].image_title)
                   /\ tasks[i].fetch_reply = NoReply
       /\ files' # files
          => /\ download_files
             /\ \E i \in DOMAIN tasks : /\ tasks'[i].fetch_reply # tasks[i].fetch_reply
                                        /\ LookupsReturned(tasks[i])
                                        /\ DOMAIN files' = DOMAIN files \cup {tasks[i].item_info.localPath}
       /\ ~download_files
          => /\ files' = files
             /\ dirs' = dirs
             /\ \A i \in DOMAIN tasks' :
                   /\ tasks'[i].fetch_reply = NoReply
                   /\ tasks'[i].item_info # Unassigned
                      => tasks'[i].item_info.localPath = None
                   /\ (Done(tasks'[i]) /\ ~tasks'[i].raised /\ UrlResolved(tasks'[i]))
                      => tasks'[i].success]_vars

\* C13 witness: with download disabled an item with a resolved URL has been
\* collected as a success, with a null localPath, no fetch and no file.
C13_Witness ==
    /\ ~download_files
    /\ files = Empty
    /\ successful_downloads > 0
    /\ \E i \in DOMAIN tasks :
          /\ tasks[i].collected
          /\ tasks[i].success
          /\ LookupsReturned(tasks[i])
          /\ tasks[i].item_info.localPath = None
          /\ tasks[i].fetch_reply = NoReply

\* A reply slot that holds a reply keeps it, and the step that received the
\* reply is left with it.
AskedOnce(before, after, pcBefore, pcAfter, step) ==
    /\ before # NoReply => after = before
    /\ after # before => (pcBefore = step /\ pcAfter # step)

\* C14: no step is retried. Each task receives at most one page-images
\* reply, one image-metadata reply and one fetch reply, leaves the step with
\* the reply and never comes back to it; the lister only appends to its
\* requests, a request that failed is its last one, and no two of its
\* requests ask for the same page.
C14_NoRetry ==
    [][/\ \A i \in DOMAIN tasks :
             /\ AskedOnce(tasks[i].image_reply, tasks'[i].image_reply,
                          tasks[i].pc, tasks'[i].pc, "get_item_image")
             /\ AskedOnce(tasks[i].url_reply, tasks'[i].url_reply,
                          tasks[i].pc, tasks'[i].pc, "get_image_url")
             /\ AskedOnce(tasks[i].fetch_reply, tasks'[i].fetch_reply,
                          tasks[i].pc, tasks'[i].pc, "download_image")
             /\ tasks[i].pc = "get_image_url" => tasks'[i].pc # "get_item_image"
             /\ tasks[i].pc = "download_image"
                => tasks'[i].pc \notin {"get_item_image", "get_image_url"}
             /\ Done(tasks[i]) => Done(tasks'[i])
       /\ Len(requests') >= Len(requests)
       /\ SubSeq(requests', 1, Len(requests)) = requests
       /\ \A k \in DOMAIN requests' :
             /\ k < Len(requests') => requests'[k].reply = "ok"
             /\ \A j \in DOMAIN requests' :
                   j # k => requests'[j].cmcontinue # requests'[k].cmcontinue]_vars

\* C14 witness: the second listing request failed and was the last one, and
\* an item whose page-images request failed was collected as a failure while
\* another item's fetch was answered 404.
C14_Witness ==
    /\ Len(requests) = 2
    /\ requests[2].reply = "transport"
    /\ pc = "done"
    /\ \E i, j \in DOMAIN tasks :
          /\ tasks[i].image_reply.status = "transport"
          /\ tasks[i].collected
          /\ ~tasks[i].success
          /\ tasks[j].fetch_reply.status = "http_error"
          /\ ~tasks[j].success

\* C15: a run that has ended has brought every dispatched item to a terminal
\* outcome that was collected, has logged the summary, and has written the
\* catalog when its directory exists; no run ends before that.
C15_RunCompletes ==
    RunEnded =>
        /\ \A i \in DOMAIN tasks : Done(tasks[i]) /\ ~tasks[i].raised /\ tasks[i].collected
        /\ Len(tasks) = Len(items)
        /\ summary.logged
        /\ SCRIPTS_DIR \in dirs => catalog.written

\* The response to request k succeeded and held a continuation token: the
\* request was answered with the document of a page that is not the last.
AnsweredWithToken(k) == requests[k].reply = "ok" /\ k < Len(wiki)

\* C16: the first request of get_item_list carries no cmcontinue; request
\* k + 1 carries the token the response to request k returned; the loop is
\* about to issue another request exactly when there has been no request yet
\* or the last response succeeded and held a token, and it has returned
\* otherwise.
C16_TokenProtocol ==
    /\ requests # <<>> => requests[1].cmcontinue = None
    /\ \A k \in 1..(Len(requests) - 1) :
          /\ AnsweredWithToken(k)
          /\ requests[k + 1].cmcontinue = Token(k)
    /\ pc = "get_item_list"
       <=> (requests = <<>> \/ AnsweredWithToken(Len(requests)))
    /\ pc = "submit"
       <=> (requests # <<>> /\ ~AnsweredWithToken(Len(requests)))

\* C16 witness: two requests were made, the second carried the token of the
\* first response, and the loop stopped at the second response, which held no
\* token.
C16_Witness ==
    /\ pc = "submit"
    /\ Len(requests) = 2
    /\ requests[1].cmcontinue = None
    /\ requests[2].cmcontinue = Token(1)
    /\ AllRequestsOk

\* C17: get_item_list has slept once for every request but the last when it
\* has returned, and once for every request answered so far while it loops:
\* one delay between two consecutive requests, none before the first, none
\* after the response that ends the listing.
C17_OneDelayBetweenRequests ==
    /\ requests = <<>> => sleeps = 0
    /\ pc = "get_item_list" => sleeps = DELAY_BETWEEN_REQUESTS * Len(requests)
    /\ pc = "submit" => sleeps = DELAY_BETWEEN_REQUESTS * (Len(requests) - 1)

\* C17 witness: the listing ended on a failed second request after exactly
\* one delay.
C17_Witness ==
    /\ pc = "submit"
    /\ Len(requests) = 2
    /\ requests[2].reply = "transport"
    /\ sleeps = DELAY_BETWEEN_REQUESTS

\* C18: the catalog is written at most once, by a step taken after the
\* listing has returned, when every dispatched task has finished and its
\* result has been collected, one per listed item; the tasks are created in
\* one step after the listing has returned, one per listed item, and the
\* listing makes no request once they exist.
C18_CatalogOnceAfterAll ==
    [][/\ catalog.written => catalog' = catalog
       /\ (catalog'.written /\ ~catalog.written)
          => /\ pc = "save_items_json"
             /\ requests # <<>>
             /\ requests' = requests
             /\ Len(tasks) = Len(items)
             /\ Running(tasks) = {}
             /\ \A i \in DOMAIN tasks : Done(tasks[i]) /\ tasks[i].collected
             /\ Len(items_info) = Len(items)
             /\ tasks' = tasks
       /\ Len(tasks') # Len(tasks)
          => /\ pc = "submit"
             /\ tasks = <<>>
             /\ items' = items
             /\ Len(tasks') = Len(items)
             /\ \A i \in DOMAIN tasks' : tasks'[i] = NewTask(items[i])
       /\ tasks # <<>> => (requests' = requests /\ items' = items)
       /\ pc \in {"main", "get_item_list"} => tasks' = <<>>]_vars

\* C18 witness: the catalog of a run over two pages and two items has been
\* written, after both results were collected.
C18_Witness ==
    /\ catalog.written
    /\ Len(requests) = 2
    /\ Len(items) = 2
    /\ Len(items_info) = 2
    /\ Len(catalog.entries) = 1

\* What process_item returns for a titled item of the fixed remote.
ExpectedInfo(item) ==
    CASE item = ItemA -> [name      |-> <<"A">>,
                          imageUrl  |-> UrlOfA,
                          localPath |-> IF download_files THEN PathOfA ELSE None]
      [] item = ItemD -> [name      |-> <<"D">>,
                          imageUrl  |-> UrlOfD,
                          localPath |-> IF download_files THEN PathOfD ELSE None]
      [] OTHER        -> [name |-> item.title, imageUrl |-> None, localPath |-> None]

ExpectedSuccess(item) == item = ItemA \/ (item = ItemD /\ ~download_files)

Titled(its) == {k \in DOMAIN its : "title" \in DOMAIN its[k]}

Count(seq, x) == Cardinality({k \in DOMAIN seq : seq[k] = x})

\* The results, the counts and the catalog are those of the listed items,
\* whatever the order of the results.
SameAsExpected ==
    /\ Len(items_info) = Cardinality(Titled(items))
    /\ \A k \in Titled(items) :
          Count(items_info, ExpectedInfo(items[k]))
             = Cardinality({j \in Titled(items) : ExpectedInfo(items[j]) = ExpectedInfo(items[k])})
    /\ successful_downloads = Cardinality({k \in Titled(items) : ExpectedSuccess(items[k])})
    /\ failed_downloads = Cardinality({k \in Titled(items) : ~ExpectedSuccess(items[k])})
    /\ catalog.written =>
          Range(catalog.entries) =
             {ExpectedInfo(items[k]) : k \in {j \in Titled(items) : items[j] \in {ItemA, ItemD}}}

\* C19: for a given list of items, download flag and remote, a run that has
\* ended holds the same multiset of results, the same counts and the same
\* catalog entries whatever the interleaving of its tasks was, and each
\* collected result was counted once.
C19_InterleavingIndependent ==
    /\ successful_downloads + failed_downloads = Len(items_info)
    /\ RunEnded => SameAsExpected

\* C20: two listed items with different titles are never given the same
\* destination path.
C20_DistinctPaths ==
    \A i, j \in DOMAIN tasks :
        (/\ i # j
         /\ tasks[i].item_info # Unassigned
         /\ tasks[j].item_info # Unassigned
         /\ tasks[i].item_info.name # tasks[j].item_info.name
         /\ tasks[i].item_info.localPath # None
         /\ tasks[j].item_info.localPath # None)
        => tasks[i].item_info.localPath # tasks[j].item_info.localPath

====
